---- MODULE Spec2Model ----
(***************************************************************************)
(* Model of cvxpy/solver_interface/conic_solvers/ecos_conif.py: the ECOS   *)
(* adapter (get_problem_data, solve, format_results) and the exit-code     *)
(* table STATUS_MAP.  Python calls are modelled with their run-time        *)
(* semantics: binding of positional arguments to the declared parameters,  *)
(* resolution of free names, dict lookup, and reference (not value)        *)
(* semantics for dict objects.                                             *)
(***************************************************************************)
EXTENDS Integers, Sequences, FiniteSets, TLC

VARIABLES heap, problem, results_dict, data, last

vars == <<heap, problem, results_dict, data, last>>

(* ------------------------------ bounds --------------------------------- *)
MaxCode == 12
MaxVal == 1
MaxIter == 1
MaxTime == 1
MaxLen == 2
MaxVars == 2
MaxSize == 2

(* --------------------- cvxpy.settings (status names) ------------------- *)
OPTIMAL == "optimal"
INFEASIBLE == "infeasible"
UNBOUNDED == "unbounded"
OPTIMAL_INACCURATE == "optimal_inaccurate"
INFEASIBLE_INACCURATE == "infeasible_inaccurate"
UNBOUNDED_INACCURATE == "unbounded_inaccurate"
SOLVER_ERROR == "solver_error"

SOLUTION_PRESENT == {OPTIMAL, OPTIMAL_INACCURATE}

EXP_DIM == "ep"

(* --------------------------- Python outcomes --------------------------- *)
NoError == "none"
NoResult == <<>>

(* ------------------------------ STATUS_MAP ----------------------------- *)
STATUS_MAP_swapped ==
    (0 :> OPTIMAL) @@ (1 :> UNBOUNDED) @@ (2 :> INFEASIBLE) @@
    (10 :> OPTIMAL_INACCURATE) @@ (11 :> INFEASIBLE_INACCURATE) @@
    (12 :> UNBOUNDED_INACCURATE) @@
    (-1 :> SOLVER_ERROR) @@ (-2 :> SOLVER_ERROR) @@ (-3 :> SOLVER_ERROR) @@
    (-4 :> SOLVER_ERROR) @@ (-7 :> SOLVER_ERROR)

STATUS_MAP ==
    (0 :> OPTIMAL) @@ (1 :> INFEASIBLE) @@ (2 :> UNBOUNDED) @@
    (10 :> OPTIMAL_INACCURATE) @@ (11 :> INFEASIBLE_INACCURATE) @@
    (12 :> UNBOUNDED_INACCURATE) @@
    (-1 :> SOLVER_ERROR) @@ (-2 :> SOLVER_ERROR) @@ (-3 :> SOLVER_ERROR) @@
    (-4 :> SOLVER_ERROR) @@ (-7 :> SOLVER_ERROR)

(* ---------------------------- format_results --------------------------- *)
\* line 168: self.STATUS_MAP[results_dict['info']['exitFlag']]; a dict
\* subscript with a missing key raises KeyError.
status_lookup_defaulting(rd) ==
    IF rd.info.exitFlag \in DOMAIN STATUS_MAP
    THEN [err |-> NoError, status |-> STATUS_MAP[rd.info.exitFlag]]
    ELSE [err |-> NoError, status |-> SOLVER_ERROR]

status_lookup(rd) ==
    IF rd.info.exitFlag \in DOMAIN STATUS_MAP
    THEN [err |-> NoError, status |-> STATUS_MAP[rd.info.exitFlag]]
    ELSE [err |-> "KeyError", status |-> "unbound"]

\* lines 171-174: timing data, copied for every status.
timing_data_swapped(rd) ==
    ("SOLVE_TIME" :> rd.info.timing.tsetup) @@
    ("SETUP_TIME" :> rd.info.timing.tsolve) @@
    ("NUM_ITERS" :> rd.info.iter)

timing_data(rd) ==
    ("SOLVE_TIME" :> rd.info.timing.tsolve) @@
    ("SETUP_TIME" :> rd.info.timing.tsetup) @@
    ("NUM_ITERS" :> rd.info.iter)

\* lines 177-181: the solution entries.
solution_data_no_offset(rd, d) ==
    ("VALUE" :> rd.info.pcost) @@
    ("PRIMAL" :> rd.x) @@
    ("EQ_DUAL" :> rd.y) @@
    ("INEQ_DUAL" :> rd.z)

solution_data(rd, d) ==
    ("VALUE" :> rd.info.pcost + d["OFFSET"]) @@
    ("PRIMAL" :> rd.x) @@
    ("EQ_DUAL" :> rd.y) @@
    ("INEQ_DUAL" :> rd.z)

\* line 176: if new_results[s.STATUS] in s.SOLUTION_PRESENT
solution_guard_always(status) == TRUE

solution_guard(status) == status \in SOLUTION_PRESENT

format_results(rd, d) ==
    LET st == status_lookup(rd) IN
    IF st.err # NoError THEN [err |-> st.err, ret |-> NoResult]
    ELSE LET base == ("STATUS" :> st.status) @@ timing_data(rd)
             new_results == IF solution_guard(st.status)
                            THEN base @@ solution_data(rd, d)
                            ELSE base
         IN [err |-> NoError, ret |-> new_results]

(* ------------------------- objects and references ---------------------- *)
\* Python dicts and lists are objects reached through references.  The heap
\* maps an object to its content; UP is the caller-owned sym_data.dims, UPQ
\* the list stored under its 'q' key, LOC the dict made by dims.copy().
UP == "sym_data.dims"
UPQ == "sym_data.dims[q]"
LOC == "data[DIMS]"

UpstreamObjs == {UP, UPQ}

\* dict.copy(): a new dict with the same keys bound to the same values;
\* nested objects are shared, not copied.
dict_copy(h, src, dst) == (dst :> h[src]) @@ h

\* d[key] = value on the dict object ref.
dict_setitem(h, ref, key, value) ==
    [h EXCEPT ![ref] = (key :> value) @@ @]

(* ---------------------------- upstream data ---------------------------- *)
\* self.get_sym_data(...): dims, var_offsets, var_sizes of the problem.
get_sym_data(p) ==
    [dims |-> UP, var_offsets |-> p.var_offsets, var_sizes |-> p.var_sizes]

\* self.get_matrix_data(...): objective, constraint matrices and vectors.
get_matrix_data(p) ==
    [objective |-> <<p.c, p.offset>>, eq |-> <<p.A, p.b>>,
     ineq |-> <<p.G, p.h>>, nonlin |-> p.F]

RECURSIVE SortedSeq(_)
SortedSeq(S) ==
    IF S = {} THEN <<>>
    ELSE LET m == CHOOSE a \in S : \A b \in S : a <= b
         IN <<m>> \o SortedSeq(S \ {m})

FlatRange(var_offsets, var_sizes, id) ==
    var_offsets[id] .. (var_offsets[id] + var_sizes[id] - 1)

\* self._noncvx_id_to_idx(dims, var_offsets, var_sizes): the flat indices of
\* the variables listed as boolean and as integer.
noncvx_id_to_idx(dims, var_offsets, var_sizes) ==
    <<SortedSeq(UNION {FlatRange(var_offsets, var_sizes, id) : id \in dims["bool_ids"]}),
      SortedSeq(UNION {FlatRange(var_offsets, var_sizes, id) : id \in dims["int_ids"]})>>

(* --------------------------- get_problem_data -------------------------- *)
\* line 84: the parameters after self.
get_problem_data_params == <<"objective", "constraints">>

\* lines 20-25: the names bound at module level.
module_globals == {"intf", "s", "Solver", "ECOS"}

Range(f) == {f[i] : i \in DOMAIN f}

\* a free name of the body resolves to a parameter or a module global.
NameResolves(name) ==
    name \in Range(get_problem_data_params) \cup module_globals

\* line 109: sym_data.dims.copy()
dims_copy(h, ref) == [heap |-> dict_copy(h, ref, LOC), ref |-> LOC]

\* lines 105-108, 113-115: the bundle.
make_bundle(matrix_data, dims_ref, idx) ==
    [C |-> matrix_data.objective[1], OFFSET |-> matrix_data.objective[2],
     A |-> matrix_data.eq[1], B |-> matrix_data.eq[2],
     G |-> matrix_data.ineq[1], H |-> matrix_data.ineq[2],
     F |-> matrix_data.nonlin,
     DIMS |-> dims_ref,
     BOOL_IDX |-> idx[1], INT_IDX |-> idx[2]]

\* lines 101-115.
get_problem_data_body(h, p) ==
    LET sym_data == get_sym_data(p)
        matrix_data == get_matrix_data(p)
        c == dims_copy(h, sym_data.dims)
        idx == noncvx_id_to_idx(c.heap[c.ref], sym_data.var_offsets,
                                sym_data.var_sizes)
    IN [err |-> NoError, ret |-> make_bundle(matrix_data, c.ref, idx),
        heap |-> c.heap]

\* variant: signature (self, objective, constraints, cached_data) as the
\* docstring lists it, and data[s.DIMS] = sym_data.dims without .copy().
get_problem_data_aliasing(args, h, p) ==
    IF Len(args) # 3
    THEN [err |-> "TypeError", ret |-> NoResult, heap |-> h]
    ELSE LET sym_data == get_sym_data(p)
             idx == noncvx_id_to_idx(h[sym_data.dims], sym_data.var_offsets,
                                     sym_data.var_sizes)
         IN [err |-> NoError,
             ret |-> make_bundle(get_matrix_data(p), sym_data.dims, idx),
             heap |-> h]

\* variant: the commented-out accepts (lines 71-82) enforced on entry.
get_problem_data_accepts(args, h, p) ==
    IF Len(args) # Len(get_problem_data_params)
    THEN [err |-> "TypeError", ret |-> NoResult, heap |-> h]
    ELSE IF ~ (p.constr_types \subseteq {"Eq", "Ineq", "SOC", "Exp"})
    THEN [err |-> "UnsupportedConstraint", ret |-> NoResult, heap |-> h]
    ELSE [err |-> "NameError", ret |-> NoResult, heap |-> h]

\* lines 84-115.  The call binds args to the declared parameters (TypeError
\* when their numbers differ); line 101 then reads cached_data.
get_problem_data(args, h, p) ==
    IF Len(args) # Len(get_problem_data_params)
    THEN [err |-> "TypeError", ret |-> NoResult, heap |-> h]
    ELSE IF ~ NameResolves("cached_data")
    THEN [err |-> "NameError", ret |-> NoResult, heap |-> h]
    ELSE get_problem_data_body(h, p)

(* --------------------------------- solve ------------------------------- *)
\* dims as the solver sees it: the dict content with the 'q' list resolved.
Deref(h, ref) == [k \in DOMAIN h[ref] |-> IF k = "q" THEN h[h[ref][k]] ELSE h[ref][k]]

\* lines 141-148.  ecos_installed: whether "import ecos" finds the package;
\* solver_result: what ecos.solve returns.
solve(h, p, ecos_installed, solver_result) ==
    IF ~ ecos_installed
    THEN [err |-> "ImportError", ret |-> NoResult, heap |-> h, log |-> <<>>]
    ELSE
    LET g == get_problem_data(<<"objective", "constraints", "cached_data">>, h, p) IN
    IF g.err # NoError
    THEN [err |-> g.err, ret |-> NoResult, heap |-> g.heap, log |-> <<>>]
    ELSE
    LET bundle == g.ret
        h2 == dict_setitem(g.heap, bundle.DIMS, "e", g.heap[bundle.DIMS][EXP_DIM])
        call == [call |-> "ecos.solve",
                 args |-> <<bundle.C, bundle.G, bundle.H,
                            Deref(h2, bundle.DIMS), bundle.A, bundle.B>>]
        built == [call |-> "get_problem_data", args |-> <<>>]
        f == format_results(solver_result, ("OFFSET" :> bundle.OFFSET))
        log2 == <<built, call>>
    IN IF f.err # NoError
       THEN [err |-> f.err, ret |-> NoResult, heap |-> h2, log |-> log2]
       ELSE [err |-> NoError, ret |-> f.ret, heap |-> h2,
             log |-> Append(log2, [call |-> "format_results", args |-> <<>>])]

(* ------------------------------- inputs -------------------------------- *)
ExitCodes == (0 - MaxCode) .. MaxCode

Vecs == {[i \in 1..n |-> i] : n \in 1..MaxLen}

RawResult(code, pcost, iter, tsolve, tsetup, x, y, z) ==
    [x |-> x, y |-> y, z |-> z,
     info |-> [exitFlag |-> code, pcost |-> pcost, iter |-> iter,
               timing |-> [tsolve |-> tsolve, tsetup |-> tsetup]]]

DefaultRaw == RawResult(0, MaxVal, MaxIter, MaxTime, 0, <<1>>, <<1, 2>>, <<1>>)

DefaultData == ("OFFSET" :> MaxVal)

RECURSIVE SumTo(_, _)
SumTo(sizes, i) == IF i = 0 THEN 0 ELSE sizes[i] + SumTo(sizes, i - 1)

\* a canonical problem: its variables' (offset, size) pairs partition
\* 0 .. len(x) - 1.
Problem(sizes, sdp, soc, ep, offset) ==
    [c |-> "c", offset |-> offset, A |-> "A", b |-> "b", G |-> "G", h |-> "h",
     F |-> "F",
     var_offsets |-> [i \in DOMAIN sizes |-> SumTo(sizes, i - 1)],
     var_sizes |-> sizes,
     len_x |-> SumTo(sizes, Len(sizes)),
     constr_types |-> {"Eq", "Ineq"} \cup (IF soc THEN {"SOC"} ELSE {})
                      \cup (IF ep > 0 THEN {"Exp"} ELSE {})
                      \cup (IF sdp THEN {"SDP"} ELSE {})]

Dims(kinds, soc, ep) ==
    ("l" :> 1) @@ ("q" :> UPQ) @@ (EXP_DIM :> ep) @@
    ("bool_ids" :> {i \in DOMAIN kinds : kinds[i] = "bool"}) @@
    ("int_ids" :> {i \in DOMAIN kinds : kinds[i] = "int"})

Heap(kinds, soc, ep) ==
    (UP :> Dims(kinds, soc, ep)) @@ (UPQ :> IF soc THEN <<3>> ELSE <<>>)

NoCall ==
    [op |-> "none", err |-> NoError, ret |-> NoResult, log |-> <<>>,
     nargs |-> 0, dims |-> <<>>, ecos_installed |-> TRUE]

InitProblems ==
    \E n \in 1..MaxVars :
      \E sizes \in [1..n -> 1..MaxSize], kinds \in [1..n -> {"cont", "bool", "int"}] :
        \E sdp \in BOOLEAN, soc \in BOOLEAN, ep \in 0..1, offset \in 0..MaxVal :
          /\ problem = Problem(sizes, sdp, soc, ep, offset)
          /\ heap = Heap(kinds, soc, ep)
          /\ results_dict = DefaultRaw
          /\ data = DefaultData

InitSolutions ==
    \E code \in ExitCodes, pcost \in (0 - MaxVal)..MaxVal, offset \in 0..MaxVal :
      \E x \in Vecs, y \in Vecs, z \in Vecs :
        /\ problem = Problem(<<1>>, FALSE, FALSE, 0, offset)
        /\ heap = Heap(<<"cont">>, FALSE, 0)
        /\ results_dict = RawResult(code, pcost, MaxIter, MaxTime, 0, x, y, z)
        /\ data = ("OFFSET" :> offset)

InitDiagnostics ==
    \E code \in ExitCodes, iter \in 0..MaxIter :
      \E tsolve \in 0..MaxTime, tsetup \in 0..MaxTime :
        /\ problem = Problem(<<1>>, FALSE, FALSE, 0, 0)
        /\ heap = Heap(<<"cont">>, FALSE, 0)
        /\ results_dict = RawResult(code, MaxVal, iter, tsolve, tsetup,
                                    <<1>>, <<1, 2>>, <<1>>)
        /\ data = DefaultData

Init ==
    /\ (InitProblems \/ InitSolutions \/ InitDiagnostics)
    /\ last = NoCall

(* ------------------------------- actions ------------------------------- *)
\* a caller invokes ECOS.format_results(results_dict, data, cached_data).
CallFormatResults ==
    LET r == format_results(results_dict, data) IN
    /\ last' = [op |-> "format_results", err |-> r.err, ret |-> r.ret,
                log |-> <<>>, nargs |-> 3, dims |-> <<>>, ecos_installed |-> TRUE]
    /\ UNCHANGED <<heap, problem, results_dict, data>>

\* a caller invokes ECOS.get_problem_data with 2 or 3 positional arguments.
CallGetProblemData ==
    \E nargs \in 2..3 :
      LET args == SubSeq(<<"objective", "constraints", "cached_data">>, 1, nargs)
          r == get_problem_data(args, heap, problem)
      IN /\ last' = [op |-> "get_problem_data", err |-> r.err, ret |-> r.ret,
                     log |-> <<>>, nargs |-> nargs,
                     dims |-> IF r.err = NoError THEN Deref(r.heap, r.ret.DIMS)
                              ELSE <<>>,
                     ecos_installed |-> TRUE]
         /\ heap' = [o \in UpstreamObjs |-> r.heap[o]]
         /\ UNCHANGED <<problem, results_dict, data>>

\* a caller invokes ECOS.solve(objective, constraints, cached_data,
\* warm_start, verbose, solver_opts); results_dict is what ecos.solve would
\* return.
CallSolve ==
    \E ecos_installed \in BOOLEAN :
      LET r == solve(heap, problem, ecos_installed, results_dict)
      IN /\ last' = [op |-> "solve", err |-> r.err, ret |-> r.ret,
                     log |-> r.log, nargs |-> 6, dims |-> <<>>,
                     ecos_installed |-> ecos_installed]
         /\ heap' = [o \in UpstreamObjs |-> r.heap[o]]
         /\ UNCHANGED <<problem, results_dict, data>>

Next == CallFormatResults \/ CallGetProblemData \/ CallSolve

Spec == Init /\ [][Next]_vars

(* ------------------------------- claims -------------------------------- *)
TableCodes == {0, 1, 2, 10, 11, 12, -1, -2, -3, -4, -7}

StatusEnumeration ==
    {"optimal", "infeasible", "unbounded", "optimal_inaccurate",
     "infeasible_inaccurate", "unbounded_inaccurate", "solver_error"}

DocumentedStatus(code) ==
    CASE code = 0 -> "optimal"
      [] code = 1 -> "infeasible"
      [] code = 2 -> "unbounded"
      [] code = 10 -> "optimal_inaccurate"
      [] code = 11 -> "infeasible_inaccurate"
      [] code = 12 -> "unbounded_inaccurate"
      [] code \in {-1, -2, -3, -4, -7} -> "solver_error"

SolutionKeys == {"VALUE", "PRIMAL", "EQ_DUAL", "INEQ_DUAL"}

Translated == last.op = "format_results"

ExitFlag == results_dict.info.exitFlag

\* C1: for every exit code of the table, format_results returns without
\* raising and the status is the documented one, a member of the closed
\* seven-value enumeration.
C1_TableCodeGivesDocumentedStatus ==
    (Translated /\ ExitFlag \in TableCodes) =>
        /\ last.err = NoError
        /\ last.ret["STATUS"] = DocumentedStatus(ExitFlag)
        /\ last.ret["STATUS"] \in StatusEnumeration

C1_Witness ==
    /\ Translated
    /\ ExitFlag = -7
    /\ last.err = NoError
    /\ last.ret["STATUS"] = "solver_error"

\* C2 as stated: for an exit code that is not a key of the table,
\* format_results fails with the error UnknownExitCode and returns no record.
C2_FailsWithUnknownExitCode ==
    (Translated /\ ExitFlag \notin TableCodes) =>
        /\ last.err = "UnknownExitCode"
        /\ last.ret = NoResult

\* C2 amended: for an exit code that is not a key of the table,
\* format_results fails with KeyError (the error of the dict subscript),
\* returns no record and never defaults the status.
C2_FailsWithKeyError ==
    (Translated /\ ExitFlag \notin TableCodes) =>
        /\ last.err = "KeyError"
        /\ last.ret = NoResult

C2_Witness ==
    /\ Translated
    /\ ExitFlag = 3
    /\ last.err = "KeyError"
    /\ last.ret = NoResult

\* C3: in every record format_results returns, the optimal value and the
\* primal, equality-dual and inequality-dual vectors are all present when
\* the status is OPTIMAL or OPTIMAL_INACCURATE and all absent otherwise,
\* although the raw result holds x, y, z and pcost.
C3_SolutionPresentIffOptimal ==
    (last.op \in {"format_results", "solve"} /\ last.err = NoError) =>
        IF last.ret["STATUS"] \in {"optimal", "optimal_inaccurate"}
        THEN SolutionKeys \subseteq DOMAIN last.ret
        ELSE SolutionKeys \cap DOMAIN last.ret = {}

C3_Witness ==
    /\ Translated
    /\ last.err = NoError
    /\ ExitFlag = 1
    /\ last.ret["STATUS"] = "infeasible"
    /\ Len(results_dict.x) > 0 /\ Len(results_dict.y) > 0
    /\ SolutionKeys \cap DOMAIN last.ret = {}

\* C4: when the status is in the solution-present subset, the optimal value
\* is the raw primal cost plus the offset of the bundle passed in, and the
\* primal, equality-dual and inequality-dual vectors are the raw x, y, z.
C4_ValueIsCostPlusOffset ==
    (/\ Translated
     /\ last.err = NoError
     /\ last.ret["STATUS"] \in {"optimal", "optimal_inaccurate"}) =>
        /\ last.ret["VALUE"] = results_dict.info.pcost + data["OFFSET"]
        /\ last.ret["PRIMAL"] = results_dict.x
        /\ last.ret["EQ_DUAL"] = results_dict.y
        /\ last.ret["INEQ_DUAL"] = results_dict.z

C4_Witness ==
    /\ Translated
    /\ last.err = NoError
    /\ ExitFlag = 10
    /\ data["OFFSET"] = 1
    /\ results_dict.info.pcost = -1
    /\ last.ret["VALUE"] = 0
    /\ results_dict.y # results_dict.z
    /\ last.ret["EQ_DUAL"] = results_dict.y

\* C5: for every exit code of the table, those mapped to SOLVER_ERROR,
\* INFEASIBLE and UNBOUNDED included, format_results returns a record whose
\* solve time, setup time and iteration count are the raw tsolve, tsetup
\* and iter.
C5_DiagnosticsAlwaysCopied ==
    (Translated /\ ExitFlag \in TableCodes) =>
        /\ last.err = NoError
        /\ {"SOLVE_TIME", "SETUP_TIME", "NUM_ITERS"} \subseteq DOMAIN last.ret
        /\ last.ret["SOLVE_TIME"] = results_dict.info.timing.tsolve
        /\ last.ret["SETUP_TIME"] = results_dict.info.timing.tsetup
        /\ last.ret["NUM_ITERS"] = results_dict.info.iter

C5_Witness ==
    /\ Translated
    /\ last.err = NoError
    /\ ExitFlag = -2
    /\ results_dict.info.timing.tsolve = 1
    /\ results_dict.info.timing.tsetup = 0
    /\ last.ret["SOLVE_TIME"] = 1
    /\ last.ret["SETUP_TIME"] = 0
    /\ last.ret["NUM_ITERS"] = results_dict.info.iter

Built == last.op = "get_problem_data"

Solved == last.op = "solve"

Unsupported == "SDP" \in problem.constr_types

SolverCalls == {i \in DOMAIN last.log : last.log[i].call = "ecos.solve"}

C7_BundleDimsHoldAlias ==
    /\ Built =>
          /\ last.err = NoError
          /\ {"e", EXP_DIM} \subseteq DOMAIN last.dims
          /\ last.dims["e"] = last.dims[EXP_DIM]
    /\ (Solved /\ last.ecos_installed) =>
          /\ SolverCalls # {}
          /\ \A i \in SolverCalls :
                /\ {"e", EXP_DIM} \subseteq DOMAIN last.log[i].args[4]
                /\ last.log[i].args[4]["e"] = last.log[i].args[4][EXP_DIM]

\* C8: every call to solve on a valid canonical problem builds the bundle
\* once, then invokes the external solver once with the bundle's cost
\* vector, (G, h), cone descriptor and (A, b), then translates that result
\* once and returns a single normalized result; the call does not end
\* before the solver has been invoked.
C8_BuildSolveTranslateOnce ==
    (/\ Solved
     /\ last.ecos_installed
     /\ ~ Unsupported
     /\ ExitFlag \in TableCodes) =>
        /\ last.err = NoError
        /\ last.ret # NoResult
        /\ [i \in DOMAIN last.log |-> last.log[i].call]
             = <<"get_problem_data", "ecos.solve", "format_results">>
        /\ \A i \in SolverCalls :
              /\ last.log[i].args[1] = problem.c
              /\ last.log[i].args[2] = problem.G
              /\ last.log[i].args[3] = problem.h
              /\ last.log[i].args[5] = problem.A
              /\ last.log[i].args[6] = problem.b

SeqSet(s) == {s[i] : i \in DOMAIN s}

DiscreteSize(ids) ==
    Cardinality(UNION {FlatRange(problem.var_offsets, problem.var_sizes, id) : id \in ids})

\* C9: for every canonical problem whose variables partition
\* 0 .. len(x) - 1, the boolean and integer index sets of the bundle
\* get_problem_data returns are disjoint, lie within 0 .. len(x) - 1, hold
\* the whole flat range of every boolean (integer) variable, and their
\* union has as many elements as the discrete variables have entries.
C9_IndexSetsPartitionDiscrete ==
    (Built /\ last.nargs = 2) =>
        /\ last.err = NoError
        /\ LET bool_idx == SeqSet(last.ret.BOOL_IDX)
               int_idx == SeqSet(last.ret.INT_IDX)
           IN /\ bool_idx \cap int_idx = {}
              /\ bool_idx \cup int_idx \subseteq 0 .. (problem.len_x - 1)
              /\ \A id \in heap[UP]["bool_ids"] :
                    FlatRange(problem.var_offsets, problem.var_sizes, id)
                        \subseteq bool_idx
              /\ \A id \in heap[UP]["int_ids"] :
                    FlatRange(problem.var_offsets, problem.var_sizes, id)
                        \subseteq int_idx
              /\ Cardinality(bool_idx \cup int_idx)
                   = DiscreteSize(heap[UP]["bool_ids"] \cup heap[UP]["int_ids"])

====
